---- MODULE Spec2Model ----
(***************************************************************************)
(* Worktree NIFs of gitrekt (apps/gitrekt/c_src/worktree.c):               *)
(*   geef_worktree_add, geef_worktree_prune and the resource destructor    *)
(*   geef_worktree_free, together with the Erlang resource reference       *)
(*   counts of the repository and worktree handles, the engine's worktree  *)
(*   registry (administrative metadata) and the working directories.       *)
(***************************************************************************)
EXTENDS Integers, Sequences, FiniteSets, TLC

\* Number of worktree resources enif_alloc_resource may hand out in a run.
MaxHandles == 2

\* Open repositories, worktree names, target paths and reference names.
Repos == {"r1"}
Names == {"", "wt1", "wt2"}
Paths == {"p1", "p2"}
ExistingRefs == {"master"}
RefNames == {"master", "nonexistent"}

\* A term that is neither a binary nor a resource, and the atom `undefined`.
NotBinary == "#atom"
NotResource == "#atom"
undefined == "#undefined"

\* An argument the call never inspects.
Unread == "#unread"

\* libgit2 versions the module may be compiled against.
Versions ==
  { [major |-> 0, minor |-> 26],
    [major |-> 0, minor |-> 27],
    [major |-> 1, minor |-> 0] }

NoHandle == 0
Handles == 1..MaxHandles

VARIABLES
  ver,        \* LIBGIT2_VER_MAJOR / LIBGIT2_VER_MINOR of the build
  repoRc,     \* reference count of each geef_repository resource
  repoTerm,   \* whether the caller still holds the repository term
  hs,         \* the geef_worktree resources allocated so far
  registry,   \* per repository: names with administrative metadata on disk
  dirs,       \* working directories that exist on disk
  call        \* the most recent call: arguments, exit, result, effects

vars == <<ver, repoRc, repoTerm, hs, registry, dirs, call>>

----------------------------------------------------------------------------
\* The gate with the minor-version limit one too low.
UnsupportedBelow26(v) == v.major < 1 /\ v.minor < 26

\* The preprocessor gate of both NIFs.
Unsupported(v) == v.major < 1 /\ v.minor < 27

\* One call made by a handler: f(on), with the option/argument of interest.
Ev(f, on, arg, ok) == [f |-> f, on |-> on, arg |-> arg, ok |-> ok]

\* argv[0] taken for a repository without the type check.
IsRepositoryUnchecked(a0) == TRUE

\* enif_get_resource(env, argv[0], geef_repository_type, &repo)
IsRepository(a0) == a0 \in Repos

\* enif_inspect_binary
IsBinary(a) == a # NotBinary /\ a # undefined /\ a # Unread

\* override: argv[3] is not `undefined` and is a binary
Override(a3) == a3 # undefined /\ IsBinary(a3)

\* The engine: reference lookup, worktree creation, metadata pruning.
git_reference_lookup_ok(r, refname, fault) ==
  refname \in ExistingRefs /\ fault # "lookup"

git_worktree_add_ok(r, n, p, fault) ==
  n # "" /\ n \notin registry[r] /\ p \notin dirs /\ fault # "wt_add"

\* Without GIT_WORKTREE_PRUNE_VALID the engine prunes only a worktree whose
\* working directory is gone; with it, any worktree whose metadata exists.
git_worktree_prune_ok(r, n, p, flags, fault) ==
  /\ n \in registry[r]
  /\ flags = "GIT_WORKTREE_PRUNE_VALID" \/ p \notin dirs
  /\ fault # "prune"

\* opts.ref as passed to git_worktree_add: GIT_WORKTREE_ADD_OPTIONS_INIT
\* leaves it NULL and the assignment `opts.ref = ref` is commented out.
OptsRef(override) == "NULL"

\* The lookup's result left unchecked.
LookupFailedIgnored(a0, a3, fault) == FALSE

\* if (git_reference_lookup(&ref, repo->repo, ref_bin.data) < 0)
LookupFailed(a0, a3, fault) == ~git_reference_lookup_ok(a0, a3, fault)

\* The creation's result left unchecked.
WorktreeAddFailedIgnored(a0, a1, a2, fault) == FALSE

\* if (git_worktree_add(&worktree->worktree, repo->repo, name, path, &opts) < 0)
WorktreeAddFailed(a0, a1, a2, fault) == ~git_worktree_add_ok(a0, a1, a2, fault)

\* The return statement geef_worktree_add reaches.
AddExit(a0, a1, a2, a3, fault) ==
  IF Unsupported(ver)
    THEN IF fault = "string_to_bin" THEN "gate_error" ELSE "gate_ok"
  ELSE IF ~IsRepository(a0) THEN "badarg_repo"
  ELSE IF fault = "alloc" THEN "oom_alloc"
  ELSE IF ~IsBinary(a1) THEN "badarg_name"
  ELSE IF fault = "term_name" THEN "oom_name"
  ELSE IF ~IsBinary(a2) THEN "badarg_path"
  ELSE IF fault = "term_path" THEN "oom_path"
  ELSE IF a3 # undefined /\ ~IsBinary(a3) THEN "badarg_ref"
  ELSE IF Override(a3) /\ fault = "term_ref" THEN "error_ref"
  ELSE IF Override(a3) /\ LookupFailed(a0, a3, fault) THEN "lookup_failed"
  ELSE IF WorktreeAddFailed(a0, a1, a2, fault) THEN "add_failed"
  ELSE "ok"

\* Position of each return statement in the body of geef_worktree_add.
Rank(exit) ==
  CASE exit \in {"gate_error", "gate_ok"} -> 0
    [] exit = "badarg_repo" -> 1
    [] exit = "oom_alloc" -> 2
    [] exit = "badarg_name" -> 3
    [] exit = "oom_name" -> 4
    [] exit = "badarg_path" -> 5
    [] exit = "oom_path" -> 6
    [] exit = "badarg_ref" -> 7
    [] exit = "error_ref" -> 8
    [] exit = "lookup_failed" -> 9
    [] exit = "add_failed" -> 10
    [] exit = "ok" -> 11

Seg(cond, s) == IF cond THEN s ELSE << >>

\* The calls geef_worktree_add makes, in order, up to the return it reaches.
AddTrace(exit, override) ==
  LET k == Rank(exit) IN
    Seg(exit = "gate_error" \/ exit = "gate_ok",
        <<Ev("geef_string_to_bin", "bin", "", exit = "gate_ok")>>)
    \o Seg(k >= 2, <<Ev("enif_alloc_resource", "worktree", "", k > 2)>>)
    \o Seg(k >= 4, <<Ev("geef_terminate_binary", "name_bin", "", k > 4)>>)
    \o Seg(k >= 6, <<Ev("geef_terminate_binary", "path_bin", "", k > 6)>>)
    \o Seg(k >= 8 /\ override,
           <<Ev("geef_terminate_binary", "ref_bin", "", k > 8)>>)
    \o Seg(k >= 9 /\ override,
           <<Ev("git_reference_lookup", "ref", "", k > 9)>>)
    \o Seg(k >= 10 /\ override,
           <<Ev("enif_release_binary", "ref_bin", "", TRUE)>>)
    \o Seg(k >= 10,
           <<Ev("git_worktree_add", "worktree->worktree", OptsRef(override),
                k > 10)>>)
    \o Seg(k >= 11,
           <<Ev("enif_release_binary", "name_bin", "", TRUE),
             Ev("enif_release_binary", "path_bin", "", TRUE)>>)
    \o Seg(k >= 11 /\ override,
           <<Ev("git_reference_free", "ref", "", TRUE),
             Ev("enif_release_binary", "ref_bin", "", TRUE)>>)
    \o Seg(k >= 11,
           <<Ev("enif_make_resource", "worktree", "", TRUE),
             Ev("enif_release_resource", "worktree", "", TRUE),
             Ev("enif_keep_resource", "repo", "", TRUE)>>)

\* The value each return statement of geef_worktree_add hands to the caller.
Ret(kind, term, payload) == [kind |-> kind, term |-> term, payload |-> payload]

\* The worktree term made early and returned on the engine's failure too.
AddReturnTermOnFailure(exit, h) ==
  CASE exit = "gate_ok" -> Ret("ok_tuple", NoHandle, "message")
    [] exit = "gate_error" -> Ret("geef_error", NoHandle, "")
    [] exit \in {"badarg_repo", "badarg_name", "badarg_path", "badarg_ref"}
         -> Ret("badarg", NoHandle, "")
    [] exit \in {"oom_alloc", "oom_name", "oom_path"}
         -> Ret("geef_oom", NoHandle, "")
    [] exit = "error_ref" -> Ret("atoms.error", NoHandle, "")
    [] exit = "lookup_failed" -> Ret("geef_error", NoHandle, "")
    [] exit = "add_failed" -> Ret("geef_error", h, "worktree")
    [] exit = "ok" -> Ret("ok_tuple", h, "worktree")

AddReturn(exit, h) ==
  CASE exit = "gate_ok" -> Ret("ok_tuple", NoHandle, "message")
    [] exit = "gate_error" -> Ret("geef_error", NoHandle, "")
    [] exit \in {"badarg_repo", "badarg_name", "badarg_path", "badarg_ref"}
         -> Ret("badarg", NoHandle, "")
    [] exit \in {"oom_alloc", "oom_name", "oom_path"}
         -> Ret("geef_oom", NoHandle, "")
    [] exit = "error_ref" -> Ret("atoms.error", NoHandle, "")
    [] exit = "lookup_failed" -> Ret("geef_error", NoHandle, "")
    [] exit = "add_failed" -> Ret("geef_error", NoHandle, "")
    [] exit = "ok" -> Ret("ok_tuple", h, "worktree")

----------------------------------------------------------------------------
\* Worktree resources.  A slot is "none" until enif_alloc_resource returns it.
EmptySlot ==
  [st |-> "none", rc |-> 0, term |-> FALSE, wt |-> "uninit", name |-> "",
   path |-> "", repo |-> "uninit", dtor |-> 0, wtFrees |-> 0, repoRels |-> 0]

FreeSlots == {h \in Handles : hs[h].st = "none"}
NextSlot == CHOOSE h \in FreeSlots : \A g \in FreeSlots : h <= g

\* The success path without enif_release_resource(worktree): the creator
\* keeps its own reference.
AddHandleRcNoRelease == 1 + 1

\* Reference count of the worktree resource when geef_worktree_add returns
\* success: enif_alloc_resource (1), enif_make_resource (+1),
\* enif_release_resource (-1).
AddHandleRc == 1 + 1 - 1

\* The success path without enif_keep_resource(repo).
AddRepoRcNoKeep(rc) == rc

\* enif_keep_resource(repo) on the success path.
AddRepoRc(rc) == rc + 1

\* The success path without `worktree->repo = repo`.
ShellAfterNoRepoLink(exit, a0, a1, a2) ==
  IF exit = "ok"
    THEN [EmptySlot EXCEPT !.st = "alloc", !.rc = AddHandleRc, !.term = TRUE,
                           !.wt = "valid", !.name = a1, !.path = a2]
    ELSE [EmptySlot EXCEPT !.st = "alloc", !.rc = 1]

\* The geef_worktree struct when geef_worktree_add returns.
ShellAfter(exit, a0, a1, a2) ==
  IF exit = "ok"
    THEN [EmptySlot EXCEPT !.st = "alloc", !.rc = AddHandleRc, !.term = TRUE,
                           !.wt = "valid", !.name = a1, !.path = a2,
                           !.repo = a0]
    ELSE [EmptySlot EXCEPT !.st = "alloc", !.rc = 1]

CallRec(op, repo, name, path, ref, fault, exit, ret, h, ev) ==
  [op |-> op, repo |-> repo, name |-> name, path |-> path, ref |-> ref,
   fault |-> fault, exit |-> exit, ret |-> ret, h |-> h, ev |-> ev]

geef_worktree_add(a0, a1, a2, a3, fault) ==
  LET exit == AddExit(a0, a1, a2, a3, fault)
      k == Rank(exit)
      h == IF k >= 3 THEN NextSlot ELSE NoHandle
  IN
    /\ k >= 3 => FreeSlots # {}
    /\ hs' = IF k >= 3
               THEN [hs EXCEPT ![h] = ShellAfter(exit, a0, a1, a2)]
               ELSE hs
    /\ repoRc' = IF exit = "ok"
                   THEN [repoRc EXCEPT ![a0] = AddRepoRc(@)]
                   ELSE repoRc
    /\ registry' = IF exit = "ok"
                     THEN [registry EXCEPT ![a0] = @ \cup {a1}]
                     ELSE registry
    /\ dirs' = IF exit = "ok" THEN dirs \cup {a2} ELSE dirs
    /\ call' = CallRec("add", a0, a1, a2, a3, fault, exit, AddReturn(exit, h), h,
                       AddTrace(exit, Override(a3)))
    /\ UNCHANGED <<ver, repoTerm>>

----------------------------------------------------------------------------
\* The prune options left at GIT_WORKTREE_PRUNE_OPTIONS_INIT.
PruneFlagsInit == "0"

\* opts.flags |= GIT_WORKTREE_PRUNE_VALID
PruneFlags == "GIT_WORKTREE_PRUNE_VALID"

\* The return statement geef_worktree_prune reaches.  a0 = NoHandle stands for
\* a term that is no worktree resource.
PruneExit(a0, fault) ==
  IF Unsupported(ver)
    THEN IF fault = "string_to_bin" THEN "gate_error" ELSE "gate_ok"
  ELSE IF a0 \notin Handles THEN "badarg_worktree"
  ELSE IF ~git_worktree_prune_ok(hs[a0].repo, hs[a0].name, hs[a0].path,
                                 PruneFlags, fault)
    THEN "prune_failed"
  ELSE "ok"

\* The result of git_worktree_prune left unchecked.
PruneReturnUnchecked(exit) ==
  CASE exit = "gate_ok" -> Ret("ok_tuple", NoHandle, "message")
    [] exit = "gate_error" -> Ret("geef_error", NoHandle, "")
    [] exit = "badarg_worktree" -> Ret("badarg", NoHandle, "")
    [] exit = "prune_failed" -> Ret("atoms.ok", NoHandle, "")
    [] exit = "ok" -> Ret("atoms.ok", NoHandle, "")

\* The value each return statement of geef_worktree_prune hands to the caller.
PruneReturn(exit) ==
  CASE exit = "gate_ok" -> Ret("ok_tuple", NoHandle, "message")
    [] exit = "gate_error" -> Ret("geef_error", NoHandle, "")
    [] exit = "badarg_worktree" -> Ret("badarg", NoHandle, "")
    [] exit = "prune_failed" -> Ret("geef_error", NoHandle, "")
    [] exit = "ok" -> Ret("atoms.ok", NoHandle, "")

PruneTrace(exit) ==
  Seg(exit = "gate_error" \/ exit = "gate_ok",
      <<Ev("geef_string_to_bin", "bin", "", exit = "gate_ok")>>)
  \o Seg(exit \in {"prune_failed", "ok"},
         <<Ev("git_worktree_prune", "worktree->worktree", PruneFlags,
              exit = "ok")>>)

\* The worktree struct is torn down by a successful prune as well.
PruneHandleFreed(w, exit) ==
  IF exit = "ok"
    THEN [w EXCEPT !.wt = "freed", !.wtFrees = @ + 1]
    ELSE w

\* geef_worktree_prune only reads worktree->worktree: the struct is unchanged.
PruneHandle(w, exit) == w

geef_worktree_prune(a0, fault) ==
  LET exit == PruneExit(a0, fault) IN
    /\ hs' = IF a0 \in Handles /\ exit \in {"prune_failed", "ok"}
               THEN [hs EXCEPT ![a0] = PruneHandle(@, exit)]
               ELSE hs
    /\ registry' = IF exit = "ok"
                     THEN [registry EXCEPT ![hs[a0].repo] = @ \ {hs[a0].name}]
                     ELSE registry
    /\ call' = CallRec("prune", "", "", "", "", fault, exit, PruneReturn(exit), a0,
                       PruneTrace(exit))
    /\ UNCHANGED <<ver, repoRc, repoTerm, dirs>>

----------------------------------------------------------------------------
\* enif_release_resource(worktree->repo) in the destructor.
FreeRepoRc(rc) == rc - 1

\* The destructor without git_worktree_free.
FreeHandleNoWorktreeFree(w) ==
  [w EXCEPT !.st = "destroyed", !.name = "", !.path = "", !.repo = "released",
            !.dtor = @ + 1, !.repoRels = @ + 1]

\* The destructor's effect on the geef_worktree it is given.
FreeHandle(w) ==
  [w EXCEPT !.st = "destroyed", !.wt = "freed", !.name = "", !.path = "",
            !.repo = "released", !.dtor = @ + 1, !.repoRels = @ + 1,
            !.wtFrees = @ + 1]

\* The destructor with its two statements swapped.
FreeTraceWorktreeFirst ==
  <<Ev("git_worktree_free", "worktree->worktree", "", TRUE),
    Ev("enif_release_resource", "worktree->repo", "", TRUE)>>

\* The calls the destructor makes, in order.
FreeTrace ==
  <<Ev("enif_release_resource", "worktree->repo", "", TRUE),
    Ev("git_worktree_free", "worktree->worktree", "", TRUE)>>

geef_worktree_free(h) ==
  /\ hs' = [hs EXCEPT ![h] = FreeHandle([@ EXCEPT !.rc = 0, !.term = FALSE])]
  /\ repoRc' = [repoRc EXCEPT ![hs[h].repo] = FreeRepoRc(@)]
  /\ call' = CallRec("free", "", "", "", "", "none", "done", Ret("void", NoHandle, ""), h,
                     FreeTrace)
  /\ UNCHANGED <<ver, repoTerm, registry, dirs>>

\* The caller lets go of a worktree term; the runtime drops the term's
\* reference and runs the destructor when the count reaches zero.
ReleaseWorktreeTerm(h) ==
  /\ hs[h].term
  /\ IF hs[h].rc - 1 <= 0
       THEN geef_worktree_free(h)
       ELSE /\ hs' = [hs EXCEPT ![h].rc = @ - 1, ![h].term = FALSE]
            /\ call' = CallRec("drop", "", "", "", "", "none", "done",
                               Ret("void", NoHandle, ""), h, << >>)
            /\ UNCHANGED <<ver, repoRc, repoTerm, registry, dirs>>

\* The caller lets go of a repository term.
ReleaseRepositoryTerm(r) ==
  /\ repoTerm[r]
  /\ repoTerm' = [repoTerm EXCEPT ![r] = FALSE]
  /\ repoRc' = [repoRc EXCEPT ![r] = @ - 1]
  /\ call' = CallRec("droprepo", r, "", "", "", "none", "done", Ret("void", NoHandle, ""),
                     NoHandle, << >>)
  /\ UNCHANGED <<ver, hs, registry, dirs>>

\* A working directory is deleted from outside.
DeleteDir(p) ==
  /\ p \in dirs
  /\ dirs' = dirs \ {p}
  /\ call' = CallRec("rmdir", "", "", "", "", "none", "done", Ret("void", NoHandle, ""),
                     NoHandle, << >>)
  /\ UNCHANGED <<ver, repoRc, repoTerm, hs, registry>>

----------------------------------------------------------------------------
Init ==
  /\ ver \in Versions
  /\ repoRc = [r \in Repos |-> 1]
  /\ repoTerm = [r \in Repos |-> TRUE]
  /\ hs = [h \in Handles |-> EmptySlot]
  /\ registry = [r \in Repos |-> {}]
  /\ dirs = {}
  /\ call = CallRec("none", "", "", "", "", "none", "done", Ret("void", NoHandle, ""),
                    NoHandle, << >>)

WorktreeArgs == {h \in Handles : hs[h].term} \cup {NoHandle}

\* The inputs of one geef_worktree_add call.  Arguments are drawn as the code
\* reads them: an argument the call returns before inspecting is Unread, and
\* a fault is drawn only where the call reaches the operation it strikes.
AddInputs ==
  LET R == {r \in Repos : repoTerm[r]}
      U == Unread
  IN
    IF Unsupported(ver)
      THEN {<<U, U, U, U, f>> : f \in {"none", "string_to_bin"}}
      ELSE {<<NotResource, U, U, U, "none">>}
           \cup {<<r, U, U, U, "alloc">> : r \in R}
           \cup {<<r, NotBinary, U, U, "none">> : r \in R}
           \cup {<<r, n, U, U, "term_name">> : r \in R, n \in Names}
           \cup {<<r, n, NotBinary, U, "none">> : r \in R, n \in Names}
           \cup {<<r, n, p, U, "term_path">> : r \in R, n \in Names, p \in Paths}
           \cup {<<r, n, p, NotBinary, "none">> :
                   r \in R, n \in Names, p \in Paths}
           \cup {<<r, n, p, ref, f>> :
                   r \in R, n \in Names, p \in Paths, ref \in RefNames,
                   f \in {"none", "term_ref", "lookup", "wt_add"}}
           \cup {<<r, n, p, undefined, f>> :
                   r \in R, n \in Names, p \in Paths, f \in {"none", "wt_add"}}

Add ==
  \E in \in AddInputs :
    geef_worktree_add(in[1], in[2], in[3], in[4], in[5])

PruneInputs ==
  IF Unsupported(ver)
    THEN {<<NoHandle, f>> : f \in {"none", "string_to_bin"}}
    ELSE {<<a0, f>> : a0 \in WorktreeArgs, f \in {"none", "prune"}}

Prune == \E in \in PruneInputs : geef_worktree_prune(in[1], in[2])

DropWorktree == \E h \in Handles : ReleaseWorktreeTerm(h)

DropRepository == \E r \in Repos : ReleaseRepositoryTerm(r)

Rmdir == \E p \in Paths : DeleteDir(p)

Next == Add \/ Prune \/ DropWorktree \/ DropRepository \/ Rmdir

Spec == Init /\ [][Next]_vars

----------------------------------------------------------------------------
\* Observations on the most recent call.

\* The build's engine is older than the 0.27 the worktree API needs
\* ("libgit2 version >= 0.27.x required").
EngineTooOld == ver.major = 0 /\ ver.minor < 27

\* Results that report an error to the caller: the badarg exception,
\* {error, _} tuples and the bare atom error.
IsFailure(ret) == ret.kind \in {"badarg", "geef_oom", "atoms.error", "geef_error"}

EngineFns ==
  {"git_reference_lookup", "git_worktree_add", "git_worktree_prune",
   "git_worktree_free", "git_reference_free"}
AcquireFns == {"enif_alloc_resource", "geef_terminate_binary", "git_reference_lookup"}
ReleaseFns == {"enif_release_resource", "enif_release_binary", "git_reference_free"}
CallResources == {"worktree", "name_bin", "path_bin", "ref_bin", "ref"}

Calls(ev, f) == {i \in DOMAIN ev : ev[i].f = f}
Acquired(ev, on) ==
  Cardinality({i \in DOMAIN ev : ev[i].f \in AcquireFns /\ ev[i].on = on /\ ev[i].ok})
Released(ev, on) ==
  Cardinality({i \in DOMAIN ev : ev[i].f \in ReleaseFns /\ ev[i].on = on})
HeldAtReturn(ev) == {on \in CallResources : Acquired(ev, on) > Released(ev, on)}

LiveOn(r) == {h \in Handles : hs[h].st = "alloc" /\ hs[h].repo = r}
CallerRefs(r) == IF repoTerm[r] THEN 1 ELSE 0

----------------------------------------------------------------------------
\* C1: whenever geef_worktree_add returns a failure, nothing the call
\* acquired (handle shell, terminated buffers, looked-up reference) is still
\* held.
C1_NoLeakOnFailure ==
  (call.op = "add" /\ IsFailure(call.ret)) => HeldAtReturn(call.ev) = {}

\* C2: whenever geef_worktree_add resolved a supplied reference name, the
\* reference has been freed by the time the call returns, on success and on
\* failure alike.
C2_ReferenceFreed ==
  (call.op = "add" /\ call.ref \in ExistingRefs /\ Acquired(call.ev, "ref") > 0)
    => Released(call.ev, "ref") > 0

\* C3: a failing geef_worktree_add hands the caller no worktree handle; a
\* worktree term is made and returned only after git_worktree_add succeeded.
C3_NoHandleOnFailure ==
  call.op = "add" =>
    /\ IsFailure(call.ret) =>
         (call.ret.term = NoHandle /\ call.ret.payload # "worktree")
    /\ (call.ret.term # NoHandle \/ Calls(call.ev, "enif_make_resource") # {}) =>
         \E i \in Calls(call.ev, "git_worktree_add") : call.ev[i].ok

\* A create failed after the engine refused it: the shell was allocated and
\* the caller got an error.
C3_Witness ==
  /\ call.op = "add"
  /\ call.h # NoHandle
  /\ \E i \in Calls(call.ev, "git_worktree_add") : ~call.ev[i].ok
  /\ IsFailure(call.ret)

\* C4: the repository's reference count is the caller's own reference plus
\* one per live worktree handle bound to it, so the repository is not
\* destroyed while such a handle is alive.
C4_RepoRefcount ==
  \A r \in Repos :
    /\ repoRc[r] = CallerRefs(r) + Cardinality(LiveOn(r))
    /\ LiveOn(r) # {} => repoRc[r] > 0

\* The caller has dropped the repository, one handle was destroyed, and
\* another live handle alone keeps the repository alive.
C4_Witness ==
  \E r \in Repos :
    /\ ~repoTerm[r]
    /\ Cardinality(LiveOn(r)) = 1
    /\ repoRc[r] = 1
    /\ \E h \in Handles : hs[h].st = "destroyed"

\* C5: the destructor of a handle runs at most once, and its one run frees
\* the engine worktree once and releases the repository reference once.
C5_DestroyOnce ==
  \A h \in Handles :
    /\ hs[h].dtor <= 1
    /\ hs[h].wtFrees = hs[h].dtor
    /\ hs[h].repoRels = hs[h].dtor
    /\ hs[h].st = "destroyed" <=> hs[h].dtor = 1

\* A created handle has been destroyed and another is still alive.
C5_Witness ==
  /\ \E h \in Handles : hs[h].dtor = 1 /\ hs[h].wtFrees = 1 /\ hs[h].repoRels = 1
  /\ \E h \in Handles : hs[h].st = "alloc" /\ hs[h].term

\* C6: on a build whose engine is too old, geef_worktree_add and
\* geef_worktree_prune return an error result, never a success result.
C6_GateReturnsError ==
  (EngineTooOld /\ call.op \in {"add", "prune"}) => IsFailure(call.ret)

\* C7: on a build whose engine is too old, neither NIF calls the engine,
\* allocates a worktree handle or touches a reference count, so no handle, no
\* registry entry and no extra repository reference ever exists.
C7_GateTouchesNothing ==
  EngineTooOld =>
    /\ \A i \in DOMAIN call.ev :
         call.ev[i].f \notin
           EngineFns \cup {"enif_alloc_resource", "enif_keep_resource",
                           "enif_release_resource", "enif_make_resource"}
    /\ call.h = NoHandle
    /\ \A h \in Handles : hs[h].st = "none"
    /\ \A r \in Repos : repoRc[r] = CallerRefs(r) /\ registry[r] = {}
    /\ dirs = {}

\* Both NIFs have been called on a too-old build; the latest call was a prune.
C7_Witness ==
  /\ EngineTooOld
  /\ call.op = "prune"
  /\ Calls(call.ev, "geef_string_to_bin") # {}

\* C8: a geef_worktree_add whose reference name does not resolve returns an
\* error without a handle, never calls git_worktree_add, and leaves the
\* registry, the directories and the repository's reference count unchanged.
C8_UnresolvedRef ==
  [][ (call'.op = "add" /\ ~EngineTooOld /\ call'.ref \in RefNames \ ExistingRefs)
        => /\ IsFailure(call'.ret)
           /\ call'.ret.term = NoHandle
           /\ Calls(call'.ev, "git_worktree_add") = {}
           /\ registry' = registry
           /\ dirs' = dirs
           /\ repoRc' = repoRc ]_vars

\* A create with an unresolvable reference name was made on a repository
\* that already has a worktree.
C8_Witness ==
  /\ call.op = "add"
  /\ ~EngineTooOld
  /\ call.ref \in RefNames \ ExistingRefs
  /\ call.name \in Names
  /\ registry[call.repo] # {}

\* C9: git_worktree_add is called with the resolved reference in its options
\* when a reference name was supplied and resolved, and with no reference
\* otherwise.
C9_RefIsStartPoint ==
  call.op = "add" =>
    \A i \in Calls(call.ev, "git_worktree_add") :
      call.ev[i].arg = IF Acquired(call.ev, "ref") > 0 THEN "ref" ELSE "NULL"

\* C10: a create whose name is already registered on the repository fails,
\* hands out no handle, and leaves the existing handles, the registry and the
\* repository's reference count as they were.
C10_DuplicateName ==
  [][ ( /\ call'.op = "add"
        /\ ~EngineTooOld
        /\ call'.repo \in Repos
        /\ call'.name \in registry[call'.repo] )
        => /\ IsFailure(call'.ret)
           /\ call'.ret.term = NoHandle
           /\ \A i \in Calls(call'.ev, "git_worktree_add") : ~call'.ev[i].ok
           /\ \A h \in Handles : hs[h].st # "none" => hs'[h] = hs[h]
           /\ registry' = registry
           /\ repoRc' = repoRc ]_vars

\* The second create with the same name reached the engine and was refused,
\* while the first handle is still alive and held by the caller.
C10_Witness ==
  /\ call.op = "add"
  /\ call.repo \in Repos
  /\ call.name \in registry[call.repo]
  /\ call.ref = undefined
  /\ \E i \in Calls(call.ev, "git_worktree_add") : ~call.ev[i].ok
  /\ \E h \in Handles :
       /\ h # call.h
       /\ hs[h].st = "alloc" /\ hs[h].term
       /\ hs[h].name = call.name /\ hs[h].repo = call.repo

\* C11: a geef_worktree_add whose name or path is empty or no binary fails
\* with badarg, and calls neither git_reference_lookup nor git_worktree_add.
C11_NamePathValidated ==
  ( /\ call.op = "add"
    /\ ~EngineTooOld
    /\ \/ call.name \in {"", NotBinary}
       \/ call.path \in {"", NotBinary} )
    => /\ call.ret.kind = "badarg"
       /\ Calls(call.ev, "git_reference_lookup") = {}
       /\ Calls(call.ev, "git_worktree_add") = {}

\* C12: every git_worktree_prune call made by geef_worktree_prune carries
\* GIT_WORKTREE_PRUNE_VALID, and pruning a handle whose working directory is
\* already gone removes its metadata and returns ok unless the engine itself
\* fails.
C12_PruneValidFlag ==
  [][ (call'.op = "prune" /\ ~EngineTooOld /\ call'.h \in Handles)
        => LET h == call'.h
               r == hs[h].repo
           IN /\ Calls(call'.ev, "git_worktree_prune") # {}
              /\ \A i \in Calls(call'.ev, "git_worktree_prune") :
                   call'.ev[i].arg = "GIT_WORKTREE_PRUNE_VALID"
              /\ ( /\ hs[h].path \notin dirs
                   /\ hs[h].name \in registry[r]
                   /\ call'.fault = "none" )
                   => /\ call'.ret.kind = "atoms.ok"
                      /\ hs[h].name \notin registry'[r] ]_vars

\* A handle whose working directory had been deleted was pruned with
\* success: its metadata is gone.
C12_Witness ==
  /\ call.op = "prune"
  /\ call.h \in Handles
  /\ call.ret.kind = "atoms.ok"
  /\ hs[call.h].path \notin dirs
  /\ hs[call.h].name \notin registry[hs[call.h].repo]

\* C13: geef_worktree_prune, succeeding or failing, leaves the repository's
\* reference count and the worktree handle as they were: the handle is still
\* allocated, held by the caller, initialized and not destructed.
C13_PruneKeepsHandle ==
  [][ (call'.op = "prune")
        => /\ repoRc' = repoRc
           /\ repoTerm' = repoTerm
           /\ hs' = hs
           /\ (~EngineTooOld /\ call'.h \in Handles)
                => /\ hs'[call'.h].st = "alloc"
                   /\ hs'[call'.h].term
                   /\ hs'[call'.h].rc = 1
                   /\ hs'[call'.h].wt = "valid"
                   /\ hs'[call'.h].repo \in Repos
                   /\ hs'[call'.h].dtor = 0
                   /\ hs'[call'.h].wtFrees = 0 ]_vars

\* A handle has been pruned twice: the second prune failed, and the handle is
\* still alive and held.
C13_Witness ==
  /\ call.op = "prune"
  /\ call.h \in Handles
  /\ call.exit = "prune_failed"
  /\ call.fault = "none"
  /\ hs[call.h].st = "alloc" /\ hs[call.h].term
  /\ hs[call.h].name \notin registry[hs[call.h].repo]

\* C14: the destructor frees the engine worktree first and releases the
\* repository reference second.
C14_WorktreeFreedFirst ==
  call.op = "free" =>
    \A i \in Calls(call.ev, "git_worktree_free") :
      \A j \in Calls(call.ev, "enif_release_resource") : i < j

\* C15: when geef_worktree_add returns a handle, the returned term is the
\* handle's only reference; the destructor does not run while the caller
\* holds the term, and runs when the caller lets go of it.
C15_DestroyedOnRelease ==
  [][ \A h \in Handles :
        /\ hs'[h].term =>
             (hs'[h].st = "alloc" /\ hs'[h].rc = 1 /\ hs'[h].dtor = 0)
        /\ (call'.op = "add" /\ call'.ret.term = h) =>
             (hs'[h].term /\ hs'[h].rc = 1)
        /\ (hs[h].term /\ ~hs'[h].term) =>
             (hs'[h].st = "destroyed" /\ hs'[h].dtor = 1)
        /\ hs'[h].dtor > hs[h].dtor => (hs[h].term /\ ~hs'[h].term) ]_vars

\* The caller let go of a created handle and its destructor has just run,
\* while another handle it still holds is alive.
C15_Witness ==
  /\ call.op = "free"
  /\ hs[call.h].st = "destroyed"
  /\ \E h \in Handles : hs[h].term /\ hs[h].st = "alloc"

\* C16: the destructor releases the owning-repository reference first and
\* frees the engine worktree second, each once.
C16_RepoReleasedFirst ==
  call.op = "free" =>
    /\ Len(call.ev) = 2
    /\ call.ev[1].f = "enif_release_resource" /\ call.ev[1].on = "worktree->repo"
    /\ call.ev[2].f = "git_worktree_free" /\ call.ev[2].on = "worktree->worktree"

\* A handle has been destructed.
C16_Witness ==
  /\ call.op = "free"
  /\ call.h \in Handles
  /\ hs[call.h].dtor = 1

\* Both fields of the geef_worktree struct are set.
Initialised(w) == w.wt = "valid" /\ w.repo \in Repos

\* C17: a handle the caller holds, a handle geef_worktree_prune is given and
\* a handle the destructor is run on each has its engine worktree pointer and
\* its repository link set, with the repository reference taken; a shell
\* whose create failed is never handed out and never destructed.
C17_NoHalfBuiltHandle ==
  [][ \A h \in Handles :
        /\ hs'[h].term => Initialised(hs'[h])
        /\ (call'.op = "add" /\ call'.ret.term = h) => Initialised(hs'[h])
        /\ (call'.op = "prune" /\ ~EngineTooOld /\ call'.h = h) => Initialised(hs[h])
        /\ hs'[h].dtor > hs[h].dtor => Initialised(hs[h])
        /\ (hs'[h].st = "alloc" /\ ~Initialised(hs'[h]))
             => /\ ~hs'[h].term
                /\ hs'[h].rc = 1
                /\ hs'[h].dtor = 0
                /\ call'.ret.term # h
        /\ \A r \in Repos :
             repoRc'[r] - (IF repoTerm'[r] THEN 1 ELSE 0)
               >= Cardinality({g \in Handles : hs'[g].term /\ hs'[g].repo = r}) ]_vars

\* One create failed after allocating its shell, another succeeded and its
\* handle has since been destructed.
C17_Witness ==
  /\ \E h \in Handles : hs[h].st = "alloc" /\ hs[h].wt = "uninit" /\ ~hs[h].term
  /\ \E h \in Handles : hs[h].st = "destroyed"
  /\ call.op = "free"

\* C18: after a geef_worktree_prune call on a handle, either the call
\* returned ok and the worktree's metadata is gone, or it returned an error
\* and the registry is as it was; the handle is unchanged in both cases.
C18_PruneAllOrNothing ==
  [][ (call'.op = "prune" /\ ~EngineTooOld /\ call'.h \in Handles)
        => LET w == hs[call'.h] IN
           /\ hs' = hs
           /\ \/ /\ call'.ret.kind = "atoms.ok"
                 /\ w.name \notin registry'[w.repo]
                 /\ \A i \in Calls(call'.ev, "git_worktree_prune") : call'.ev[i].ok
              \/ /\ IsFailure(call'.ret)
                 /\ registry' = registry
                 /\ \A i \in Calls(call'.ev, "git_worktree_prune") : ~call'.ev[i].ok ]_vars

\* The engine failed a prune of a worktree whose metadata exists: the call
\* returned an error and the metadata is still there.
C18_Witness ==
  /\ call.op = "prune"
  /\ call.h \in Handles
  /\ call.fault = "prune"
  /\ IsFailure(call.ret)
  /\ hs[call.h].name \in registry[hs[call.h].repo]

\* C19: geef_worktree_add given a first argument that is no repository, and
\* geef_worktree_prune given an argument that is no worktree, return badarg
\* having made no call at all: no shell is allocated, the engine is not
\* invoked and no reference count changes.
C19_TypeMismatch ==
  [][ ( /\ ~EngineTooOld
        /\ \/ call'.op = "add" /\ call'.repo = NotResource
           \/ call'.op = "prune" /\ call'.h = NoHandle )
        => /\ call'.ret.kind = "badarg"
           /\ call'.ev = << >>
           /\ hs' = hs
           /\ repoRc' = repoRc
           /\ registry' = registry
           /\ dirs' = dirs ]_vars

\* A create was given something that is no repository while a handle from
\* an earlier create is alive.
C19_Witness ==
  /\ ~EngineTooOld
  /\ call.op = "add"
  /\ call.repo = NotResource
  /\ \E h \in Handles : hs[h].st = "alloc" /\ hs[h].term

\* C20: within one geef_worktree_add call, each of the name, path and
\* reference-name buffers and the looked-up reference is released at most
\* once.
C20_ReleasedAtMostOnce ==
  call.op = "add" => \A on \in CallResources : Released(call.ev, on) <= 1

====
